---- MODULE Spec2Model ----
(***************************************************************************)
(* A model of dnspyjson: the DNSEncoder (encoder.py) as recursive          *)
(* operators over tagged Python values, and dns_answer_to_json /           *)
(* json_dns_query (__init__.py) as actions over the Answer objects'        *)
(* attribute dictionaries, the file system and stderr.                     *)
(*                                                                         *)
(* A Python value is a pair <<tag, payload>>, x[1] its type and x[2] what  *)
(* it holds:                                                               *)
(*   int, bool, float (n for n + 0.5), none, str (code points), bytes (byte *)
(*   values), list / tuple / set (a sequence, in iteration order), dict    *)
(*   (a function from key to value), name (dns.name.Name, its text without *)
(*   the final dot), message (dns.message.Message, its text), rdtype /     *)
(*   rdclass (the IntEnum members RdataType / RdataClass), rrset (the pair *)
(*   <<ttl, items>>, each item a function from slot name to value),        *)
(*   chaining (a dns.message.ChainingResult, holding its __dict__), opaque *)
(*   (an object with no to_text), jsonstr (a str holding JSON text, as a   *)
(*   sequence of tokens), raise (a raised exception, holding its class).   *)
(* stderr holds the lines the functions of __init__.py write; the          *)
(* encoder's "Unexpected datatype" developer trap is not part of it.       *)
(* JSON object members are written in a fixed key order: a Python dict's   *)
(* insertion order is not modelled.                                        *)
(***************************************************************************)
EXTENDS Integers, Sequences, FiniteSets, TLC

VARIABLES
    objDict,    \* object id -> its __dict__ (attribute name -> value)
    files,      \* path -> content written (jsonstr) or NoFile
    call,       \* the last call of the public API: function and arguments
    outcome,    \* what that call returned or raised
    stderr,     \* the lines that call wrote to sys.stderr
    dumped,     \* structured_answer_string of that call, NoString before line 64
    resolver,   \* the dns.resolver.Resolver that json_dns_query built
    encSelf,    \* a DNSEncoder instance (its attributes)
    encIn,      \* the object handed to one of its methods
    encOp,      \* the method applied, "none" before
    encOut      \* what the method returned or raised

apiVars == <<objDict, files, call, outcome, stderr, dumped, resolver>>
encVars == <<encSelf, encIn, encOp, encOut>>
vars == <<objDict, files, call, outcome, stderr, dumped, resolver,
          encSelf, encIn, encOp, encOut>>

----------------------------------------------------------------------------
(* Python values *)

PyInt(n) == <<"int", n>>
PyBool(b) == <<"bool", b>>
PyFloat(n) == <<"float", n>>
PyNone == <<"none", 0>>
PyStr(s) == <<"str", s>>
PyBytes(b) == <<"bytes", b>>
PyList(s) == <<"list", s>>
PyTuple(s) == <<"tuple", s>>
PySet(s) == <<"set", s>>
PyDict(f) == <<"dict", f>>
Name(s) == <<"name", s>>
Message(s) == <<"message", s>>
RdataType(n) == <<"rdtype", n>>
RdataClass(n) == <<"rdclass", n>>
RRset(ttl, items) == <<"rrset", <<ttl, items>>>>
ChainingResult(f) == <<"chaining", f>>
Opaque == <<"opaque", 0>>
Raise(e) == <<"raise", e>>

\* The list a comprehension builds, every element computed once, in order.
ListOf(f) == f \o <<>>
\* The dict a comprehension builds, every value computed once.
DictOf(f) == f @@ <<>>

IsRaise(x) == x[1] = "raise"
AnyRaise(s) == \E i \in 1..Len(s) : IsRaise(s[i])
\* The exception a left-to-right evaluation of s raises: the first one.
FirstRaise(s) ==
    s[CHOOSE i \in 1..Len(s) : IsRaise(s[i]) /\ \A j \in 1..(i-1) : ~IsRaise(s[j])]
\* A list comprehension: the list of the results, or the exception.
ListOrRaise(s) == IF AnyRaise(s) THEN FirstRaise(s) ELSE PyList(s)
\* A dict comprehension: the dict of the results, or the exception.
DictOrRaise(f) ==
    IF \E k \in DOMAIN f : IsRaise(f[k])
    THEN f[CHOOSE k \in DOMAIN f : IsRaise(f[k])]
    ELSE PyDict(f)

EmptyDict == [k \in {} |-> PyNone]

----------------------------------------------------------------------------
(* bytes.decode *)

\* The decoding of the rest of the bytes, with code point cp in front.
Prepend(cp, r) == IF r[1] THEN <<TRUE, <<cp>> \o r[2]>> ELSE r

\* bytes.decode('utf-8') on the one- and two-byte forms: a byte below 128 is
\* its own code point, a lead byte 194..223 takes one continuation byte
\* 128..191, anything else is a UnicodeDecodeError. The result is <<ok, code points>>.
RECURSIVE Utf8Decode(_)
Utf8Decode(bs) ==
    IF bs = <<>> THEN <<TRUE, <<>>>>
    ELSE IF Head(bs) < 128 THEN Prepend(Head(bs), Utf8Decode(Tail(bs)))
    ELSE IF Head(bs) \in 194..223 /\ Len(bs) >= 2 /\ bs[2] \in 128..191
    THEN Prepend((Head(bs) - 192) * 64 + (bs[2] - 128), Utf8Decode(Tail(Tail(bs))))
    ELSE <<FALSE, <<>>>>

\* bytes.decode('latin-1'): every byte is the code point of the same number.
Latin1Decode(bs) == <<TRUE, ListOf([i \in 1..Len(bs) |-> bs[i]])>>

\* The str a decoding gives, or the UnicodeDecodeError.
Decoded(r) == IF r[1] THEN PyStr(r[2]) ELSE Raise("UnicodeDecodeError")

\* obj.decode(encoding) for a bytes object.
BytesDecode(obj, encoding) ==
    Decoded(IF encoding = "latin-1" THEN Latin1Decode(obj[2]) ELSE Utf8Decode(obj[2]))

----------------------------------------------------------------------------
(* DNSEncoder *)

\* DNSEncoder.__init__: the attributes set from the keyword arguments,
\* <<_enhanced_decode, _include_rdcomment, _skipkeys, _encoding>>.
DNSEncoderInit(enhanced_decode, include_rdcomment, encoding) ==
    <<enhanced_decode,
      include_rdcomment,
      IF include_rdcomment = FALSE THEN {"rdcomment"} ELSE {},
      encoding>>

\* The encoding _robust_encode and _encode_rrset pass to bytes.decode.
DecodeEncoding(self) == "utf-8"

\* hasattr(obj, 'to_text'): Name and Message have the method, the IntEnum
\* classes RdataType and RdataClass have it as a classmethod.
HasToText(obj) == obj[1] \in {"name", "message", "rdtype", "rdclass"}

\* dns.rdatatype.to_text / RdataType.to_text: the mnemonic, or TYPEnnn.
RdataTypeText(n) ==
    IF n = 1 THEN <<65>>
    ELSE IF n = 15 THEN <<77, 88>>
    ELSE IF n = 16 THEN <<84, 88, 84>>
    ELSE IF n = 29 THEN <<76, 79, 67>>
    ELSE <<84, 89, 80, 69, n>>

\* RdataClass.to_text: the mnemonic, or CLASSnnn.
RdataClassText(n) == IF n = 1 THEN <<73, 78>> ELSE <<67, 76, 65, 83, 83, n>>

\* obj.to_text(arg): Name.to_text(omit_final_dot) ends the text with a dot
\* (46) unless its argument is true; the others ignore the argument here.
ToText(obj, arg) ==
    IF obj[1] = "name" THEN (IF arg THEN obj[2] ELSE obj[2] \o <<46>>)
    ELSE IF obj[1] = "rdtype" THEN RdataTypeText(obj[2])
    ELSE IF obj[1] = "rdclass" THEN RdataClassText(obj[2])
    ELSE obj[2]

\* bool(value) of the object _encode_rrset passes as to_text's argument:
\* a Name is true when it has labels.
Truthy(obj) == IF obj[1] = "name" THEN Len(obj[2]) > 0 ELSE TRUE

\* The bytes elements of a list, the only ones line 128 keeps.
BytesOnly(s) == SelectSeq(s, LAMBDA e : e[1] = "bytes")

\* The list comprehension of line 128: the bytes elements, each decoded.
DecodeListSlot(self, value) ==
    ListOrRaise(ListOf([i \in 1..Len(BytesOnly(value[2])) |->
                           BytesDecode(BytesOnly(value[2])[i], DecodeEncoding(self))]))

\* Lines 113-125: the if / elif chain on the slot's value.
SlotConvert(self, value) ==
    IF value[1] = "rdtype" THEN PyStr(RdataTypeText(value[2]))
    ELSE IF value[1] \in {"set", "tuple"} THEN PyList(value[2])
    ELSE IF value[1] = "bytes" THEN BytesDecode(value, DecodeEncoding(self))
    ELSE value

\* Lines 127-128: a list is replaced by its decoded bytes elements.
SlotDecodeList(self, value) ==
    IF IsRaise(value) THEN value
    ELSE IF value[1] = "list" THEN DecodeListSlot(self, value)
    ELSE value

\* Lines 131-135: value.to_text(value) where there is a to_text.
SlotToText(value) ==
    IF IsRaise(value) THEN value
    ELSE IF HasToText(value) THEN PyStr(ToText(value, Truthy(value)))
    ELSE value

\* _encode_rrset, lines 111-152: the value stored in the record for one slot.
EncodeSlot(self, value) ==
    SlotToText(SlotDecodeList(self, SlotConvert(self, value)))

\* The slots _encode_rrset visits for one resource record.
KeptSlots(self, answer) == (DOMAIN answer) \ self[3]

\* NewRecord with the TTL never put in: record = {}.
NewRecordWithoutTTL(obj) == EmptyDict

\* record = {'ttl': ttl} of line 104.
NewRecord(obj) == "ttl" :> PyInt(obj[2][1])

\* record[slot] = value for every encoded slot (line 152).
WithSlots(record, enc) ==
    DictOf([k \in (DOMAIN record) \cup (DOMAIN enc) |->
               IF k \in DOMAIN enc THEN enc[k] ELSE record[k]])

\* Lines 103-153: the record of one resource record, or the exception a
\* slot raised.
EncodeRecord(self, obj, answer) ==
    DictOrRaise(WithSlots(NewRecord(obj),
                          DictOf([s \in KeptSlots(self, answer) |->
                                     EncodeSlot(self, answer[s])])))

\* The resource records _encode_rrset walks, in order (obj.items).
RRsetItems(obj) == obj[2][2]

\* DNSEncoder._encode_rrset
EncodeRRset(self, obj) ==
    IF obj[1] # "rrset" THEN Raise("TypeError")
    ELSE ListOrRaise(ListOf([i \in 1..Len(RRsetItems(obj)) |->
                                EncodeRecord(self, obj, RRsetItems(obj)[i])]))

\* DNSEncoder._robust_encode
RECURSIVE RobustEncode(_, _)
RobustEncode(self, obj) ==
    IF obj[1] \in {"int", "str", "bool", "rdtype", "rdclass"} THEN obj
    ELSE IF obj[1] = "bytes" THEN BytesDecode(obj, DecodeEncoding(self))
    ELSE IF obj[1] \in {"set", "list", "tuple"}
    THEN ListOrRaise(ListOf([i \in 1..Len(obj[2]) |-> RobustEncode(self, obj[2][i])]))
    ELSE IF obj[1] = "dict"
    THEN DictOrRaise(DictOf([k \in (DOMAIN obj[2]) \ self[3] |->
                                RobustEncode(self, obj[2][k])]))
    ELSE IF obj[1] = "rrset" THEN EncodeRRset(self, obj)
    ELSE IF HasToText(obj) THEN PyStr(ToText(obj, FALSE))
    ELSE Raise("TypeError")

\* DNSEncoder.default, called with one argument.
Default(self, obj) ==
    IF obj[1] = "chaining" THEN RobustEncode(self, PyDict(obj[2]))
    ELSE IF obj[1] = "rrset" THEN EncodeRRset(self, obj)
    ELSE RobustEncode(self, obj)

----------------------------------------------------------------------------
(* json.dumps and json.loads *)

\* A token of JSON text: its kind, and the name (of an object member) or the
\* numbers (code points of a string, the value of a number) it carries.
Tok(k, name, nums) == <<k, name, nums>>
Punct(k) == Tok(k, "", <<>>)

\* The order in which the members of a JSON object are written.
KeyOrder ==
    <<"qname", "rdtype", "rdclass", "response", "nameserver", "port",
      "chaining_result", "canonical_name", "rrset", "expiration",
      "isoformat_expiration", "request_timestamp",
      "answer", "minimum_ttl", "cnames",
      "ttl", "rdcomment", "address", "preference", "exchange", "strings",
      "latitude", "size", "salt", "id">>

SortedKeys(D) == SelectSeq(KeyOrder, LAMBDA k : k \in D)

JsonStr(toks) == <<"jsonstr", toks>>

\* s[1][2] \o sep \o s[2][2] \o ... \o s[n][2]
RECURSIVE JoinToks(_, _)
JoinToks(s, sep) ==
    IF s = <<>> THEN <<>>
    ELSE IF Len(s) = 1 THEN s[1][2]
    ELSE s[1][2] \o sep \o JoinToks(Tail(s), sep)

\* The text of a JSON array or object from the texts of its parts, or the
\* exception one of them raised.
Bracketed(open, parts, close) ==
    IF AnyRaise(parts) THEN FirstRaise(parts)
    ELSE JsonStr(<<Punct(open)>> \o JoinToks(parts, <<Punct(",")>>) \o <<Punct(close)>>)

\* "key": value
Member(key, text) ==
    IF IsRaise(text) THEN text
    ELSE JsonStr(<<Tok("key", key, <<>>), Punct(":")>> \o text[2])

\* JSONEncoder.encode with DNSEncoder.default as the hook for the types
\* json does not know: the JSON text, or the exception default raised.
RECURSIVE JsonEncode(_, _)
RECURSIVE EncodeDefault(_, _)
JsonEncode(self, o) ==
    IF o[1] = "str" THEN JsonStr(<<Tok("str", "", o[2])>>)
    ELSE IF o[1] \in {"int", "rdtype", "rdclass"} THEN JsonStr(<<Tok("int", "", <<o[2]>>)>>)
    ELSE IF o[1] = "float" THEN JsonStr(<<Tok("float", "", <<o[2]>>)>>)
    ELSE IF o[1] = "bool" THEN JsonStr(<<Punct(IF o[2] THEN "true" ELSE "false")>>)
    ELSE IF o[1] = "none" THEN JsonStr(<<Punct("null")>>)
    ELSE IF o[1] \in {"list", "tuple"}
    THEN Bracketed("[", ListOf([i \in 1..Len(o[2]) |-> JsonEncode(self, o[2][i])]), "]")
    ELSE IF o[1] = "dict"
    THEN Bracketed("{",
                   ListOf([i \in 1..Len(SortedKeys(DOMAIN o[2])) |->
                              Member(SortedKeys(DOMAIN o[2])[i],
                                     JsonEncode(self, o[2][SortedKeys(DOMAIN o[2])[i]]))]),
                   "}")
    ELSE EncodeDefault(self, Default(self, o))

\* What default returned is encoded in its turn.
EncodeDefault(self, d) == IF IsRaise(d) THEN d ELSE JsonEncode(self, d)

\* json.dumps(o, cls=DNSEncoder, ...): a str of JSON text, or the exception.
JsonDumps(self, o) == JsonEncode(self, o)

DecodeError == <<Raise("JSONDecodeError"), 0>>

\* json.loads, as a recursive-descent parser over the tokens: the value at
\* position i and the position after it.
RECURSIVE ParseValue(_, _)
RECURSIVE ParseElems(_, _, _)
RECURSIVE MoreElems(_, _, _)
RECURSIVE ParseMembers(_, _, _)
RECURSIVE MoreMembers(_, _, _, _)
ParseValue(toks, i) ==
    IF i > Len(toks) THEN DecodeError
    ELSE IF toks[i][1] = "str" THEN <<PyStr(toks[i][3]), i + 1>>
    ELSE IF toks[i][1] = "int" THEN <<PyInt(toks[i][3][1]), i + 1>>
    ELSE IF toks[i][1] = "float" THEN <<PyFloat(toks[i][3][1]), i + 1>>
    ELSE IF toks[i][1] = "true" THEN <<PyBool(TRUE), i + 1>>
    ELSE IF toks[i][1] = "false" THEN <<PyBool(FALSE), i + 1>>
    ELSE IF toks[i][1] = "null" THEN <<PyNone, i + 1>>
    ELSE IF toks[i][1] = "["
    THEN IF i + 1 <= Len(toks) /\ toks[i + 1][1] = "]"
         THEN <<PyList(<<>>), i + 2>>
         ELSE ParseElems(toks, i + 1, <<>>)
    ELSE IF toks[i][1] = "{"
    THEN IF i + 1 <= Len(toks) /\ toks[i + 1][1] = "}"
         THEN <<PyDict(EmptyDict), i + 2>>
         ELSE ParseMembers(toks, i + 1, EmptyDict)
    ELSE DecodeError

\* The elements of an array from position i on, acc those before.
ParseElems(toks, i, acc) == MoreElems(toks, acc, ParseValue(toks, i))

\* After the element r: a comma and more elements, or the closing bracket.
MoreElems(toks, acc, r) ==
    IF IsRaise(r[1]) \/ r[2] > Len(toks) THEN DecodeError
    ELSE IF toks[r[2]][1] = ","
    THEN ParseElems(toks, r[2] + 1, Append(acc, r[1]))
    ELSE IF toks[r[2]][1] = "]"
    THEN <<PyList(Append(acc, r[1])), r[2] + 1>>
    ELSE DecodeError

\* The members of an object from position i on, acc those before.
ParseMembers(toks, i, acc) ==
    IF i + 1 > Len(toks) \/ toks[i][1] # "key" \/ toks[i + 1][1] # ":" THEN DecodeError
    ELSE MoreMembers(toks, acc, toks[i][2], ParseValue(toks, i + 2))

\* After the member key: r, a comma and more members, or the closing brace.
MoreMembers(toks, acc, key, r) ==
    IF IsRaise(r[1]) \/ r[2] > Len(toks) THEN DecodeError
    ELSE IF toks[r[2]][1] = ","
    THEN ParseMembers(toks, r[2] + 1, (key :> r[1]) @@ acc)
    ELSE IF toks[r[2]][1] = "}"
    THEN <<PyDict((key :> r[1]) @@ acc), r[2] + 1>>
    ELSE DecodeError

\* The value parsed, when the text ends where it ends.
Parsed(toks, r) ==
    IF IsRaise(r[1]) \/ r[2] # Len(toks) + 1 THEN Raise("JSONDecodeError")
    ELSE r[1]

\* json.loads(s)
JsonLoads(s) ==
    IF s[1] # "jsonstr" THEN Raise("TypeError")
    ELSE Parsed(s[2], ParseValue(s[2], 1))

----------------------------------------------------------------------------
(* The environment of the public API: objects, clock, file system, resolver *)

\* The resource records of the answers the resolver hands out.
MXRecord ==
    ("rdclass" :> RdataClass(1)) @@ ("rdtype" :> RdataType(15))
        @@ ("rdcomment" :> PyNone) @@ ("preference" :> PyInt(10))
        @@ ("exchange" :> Name(<<109, 120>>))

\* The objects a caller may pass as `answer`: a dns.resolver.Answer and a
\* dns.message.Message.
AnswerIds == {"answerMX"}
ObjIds == AnswerIds \cup {"message"}

\* isinstance(answer, Answer)
IsAnswer(id) == id \in AnswerIds

\* The __dict__ of each object as its constructor leaves it.
InitialDict(id) ==
    IF id = "answerMX"
    THEN ("qname" :> Name(<<97>>)) @@ ("rdtype" :> RdataType(15))
            @@ ("rdclass" :> RdataClass(1)) @@ ("response" :> Message(<<105, 100>>))
            @@ ("nameserver" :> PyStr(<<49>>)) @@ ("port" :> PyInt(53))
            @@ ("canonical_name" :> Name(<<97>>))
            @@ ("rrset" :> RRset(300, <<MXRecord>>))
            @@ ("expiration" :> PyFloat(2000))
            @@ ("chaining_result" :>
                    ChainingResult(("canonical_name" :> Name(<<97>>))
                                    @@ ("answer" :> RRset(300, <<MXRecord>>))
                                    @@ ("minimum_ttl" :> PyInt(300))
                                    @@ ("cnames" :> PyList(<<>>))))
    ELSE ("id" :> PyInt(7))

\* The readings of the clock (datetime.utcnow()), in seconds.
Clock == {1500, 1501}

\* datetime.isoformat() of the time n seconds after the epoch.
IsoFormat(n) == PyStr(<<n \div 60, 58, n % 60>>)

\* to_file: None, or the path of the file to create.
NoPath == "None"
Paths == {"out.json", "dns.out/MX_a.json"}
\* open(path, mode='w') succeeds; elsewhere it raises OSError (ENOENT).
Writable(path) == path = "out.json"

NoFile == <<"nofile", 0>>
NoString == <<"nostring", 0>>
Pending == <<"pending", 0>>

\* A line on stderr: its fixed text and what was formatted into it.
Line(msg, args) == <<msg, args>>

----------------------------------------------------------------------------
(* dnspyjson.dns_answer_to_json *)

\* ExcludeKeys ignoring its argument.
ExcludeKeysAlways(include_response_blob) == {"response"}

\* exclude_keys of line 56
ExcludeKeys(include_response_blob) ==
    IF include_response_blob = TRUE THEN {} ELSE {"response"}

\* answer.__dict__ after lines 61-62.
Stamped(d, now) ==
    DictOf([k \in (DOMAIN d) \cup {"isoformat_expiration", "request_timestamp"} |->
               IF k = "isoformat_expiration" THEN IsoFormat(d["expiration"][2])
               ELSE IF k = "request_timestamp" THEN IsoFormat(now)
               ELSE d[k]])

\* The dict comprehension of line 65.
Filtered(d, exclude_keys) == DictOf([k \in (DOMAIN d) \ exclude_keys |-> d[k]])

\* The except clause of lines 72-76 ends with a bare `raise`: the OSError
\* goes on to the caller.
AfterWriteError == Raise("OSError")

\* FileText with a newline written after the string.
FileTextWithNewline(structured_answer_string) ==
    [structured_answer_string EXCEPT ![2] = Append(@, Punct("newline"))]

\* The string written to the file at line 71.
FileText(structured_answer_string) == structured_answer_string

\* The value returned at lines 78-81.
ReturnValue(structured_answer_string, as_native_object) ==
    IF as_native_object = TRUE THEN JsonLoads(structured_answer_string)
    ELSE structured_answer_string

\* The two lines the except clause writes to stderr (lines 73-75).
WriteErrorLines(a) ==
    <<Line("ERROR: While writing file", <<"ENOENT">>),
      Line("WARN:  Unable to write file, returning result anyway",
           <<a[5],
             IF a[3] = FALSE THEN "string" ELSE "Python object">>)>>

\* Lines 68-81, s being structured_answer_string or the exception that
\* json.dumps raised. What a call leaves behind is the tuple
\* <<objDict, files, outcome, stderr, dumped>>.
WriteAndReturn(od, fs, a, s) ==
    IF IsRaise(s)
    THEN <<od, fs, s, <<>>, NoString>>
    ELSE IF a[5] # NoPath /\ ~Writable(a[5])
    THEN <<od, fs, AfterWriteError, WriteErrorLines(a), s>>
    ELSE <<od,
           IF a[5] # NoPath THEN [fs EXCEPT ![a[5]] = FileText(s)] ELSE fs,
           ReturnValue(s, a[3]),
           <<>>, s>>

\* Lines 64-66, od holding the stamped __dict__.
Serialize(od, a) ==
    JsonDumps(DNSEncoderInit(TRUE, a[4], "utf-8"),
              PyDict(Filtered(od[a[1]], ExcludeKeys(a[2]))))

\* Lines 64-81.
SerializeAnswer(od, fs, a) == WriteAndReturn(od, fs, a, Serialize(od, a))

\* DnsAnswerToJson with the isinstance check made after request_timestamp
\* is set.
DnsAnswerToJsonLateCheck(od, fs, a) ==
    IF ~IsAnswer(a[1])
    THEN <<[od EXCEPT ![a[1]] = ("request_timestamp" :> IsoFormat(a[6])) @@ od[a[1]]],
           fs, Raise("TypeError"), <<>>, NoString>>
    ELSE SerializeAnswer([od EXCEPT ![a[1]] = Stamped(od[a[1]], a[6])], fs, a)

\* The whole function: the isinstance check of lines 53-54, the two
\* attributes of lines 61-62, then the rest.
DnsAnswerToJson(od, fs, a) ==
    IF ~IsAnswer(a[1])
    THEN <<od, fs, Raise("TypeError"), <<>>, NoString>>
    ELSE SerializeAnswer([od EXCEPT ![a[1]] = Stamped(od[a[1]], a[6])], fs, a)

\* The arguments of one call (a[1] .. a[5]) and the clock's reading during
\* it (a[6]).
Args(answer, include_response_blob, as_native_object, include_rdcomment, to_file, now) ==
    <<answer, include_response_blob, as_native_object, include_rdcomment, to_file, now>>

----------------------------------------------------------------------------
(* dnspyjson.json_dns_query *)

\* CaughtExceptions with NXDOMAIN left out.
CaughtWithoutNXDOMAIN == {"Timeout", "NoAnswer", "NoMetaqueries", "NoNameservers"}

\* The exception classes of the except clause, lines 97-98.
CaughtExceptions == {"Timeout", "NoAnswer", "NoMetaqueries", "NoNameservers", "NXDOMAIN"}

\* What resolver.resolve may raise.
ResolveExceptions ==
    {"Timeout", "NoAnswer", "NoMetaqueries", "NoNameservers", "NXDOMAIN", "YXDOMAIN"}

SystemNameservers == <<"127.0.0.53">>
NoResolvers == <<"None">>
ResolverLists == {NoResolvers, <<"1.1.1.1", "8.8.8.8">>}
QTypes == {"MX"}

\* configure= of line 92
Configure(resolvers) == resolvers = NoResolvers

\* Lines 92-94: Resolver(configure=...) reads the system configuration when
\* asked to, and has no nameservers otherwise; then the caller's are set.
\* The resolver is <<configured, nameservers>>.
NewResolver(resolvers) ==
    <<Configure(resolvers),
      IF resolvers # NoResolvers THEN resolvers
      ELSE IF Configure(resolvers) THEN SystemNameservers
      ELSE <<>>>>

NoResolver == <<FALSE, <<>>>>

\* The text formatted for resolvers in the failure line.
ResolversText(resolvers) ==
    IF resolvers # NoResolvers /\ resolvers # <<>> THEN "given" ELSE "system"

\* The except clause of lines 97-101 around what the try block did.
ExceptClause(q, body) ==
    IF IsRaise(body[3]) /\ body[3][2] \in CaughtExceptions
    THEN [body EXCEPT
            ![3] = PyNone,
            ![4] = Append(body[4],
                Line("Failed query",
                     <<q[2], q[1], ResolversText(q[3]), body[3][2]>>))]
    ELSE body

\* The arguments of one call (q[1] .. q[3]), what resolver.resolve did during
\* it (q[4]) and what is passed on to dns_answer_to_json (q[5]).
Query(qname, qtype, resolvers, resolved, kwargs) ==
    <<qname, qtype, resolvers, resolved, kwargs>>

\* Lines 91-101: `resolved` is what resolver.resolve did, an Answer's id or
\* the exception it raised.
JsonDnsQuery(od, fs, q) ==
    ExceptClause(q,
        IF q[4] \in ResolveExceptions
        THEN <<od, fs, Raise(q[4]), <<>>, NoString>>
        ELSE DnsAnswerToJson(od, fs, q[5]))

----------------------------------------------------------------------------
(* The public API as a state machine *)

InitApi ==
    /\ objDict = [id \in ObjIds |-> InitialDict(id)]
    /\ files = [p \in Paths |-> NoFile]
    /\ call = <<"none", <<>>>>
    /\ outcome = Pending
    /\ stderr = <<>>
    /\ dumped = NoString
    /\ resolver = NoResolver

InitEncIdle ==
    /\ encSelf = DNSEncoderInit(FALSE, FALSE, "utf-8")
    /\ encIn = PyNone
    /\ encOp = "none"
    /\ encOut = Pending

Init == InitApi /\ InitEncIdle

\* A caller calls dns_answer_to_json.
CallDnsAnswerToJson ==
    \E id \in ObjIds, irb \in BOOLEAN, native \in BOOLEAN, rdc \in BOOLEAN,
       to_file \in Paths \cup {NoPath}, now \in Clock :
        \E a \in {Args(id, irb, native, rdc, to_file, now)} :
        \E r \in {DnsAnswerToJson(objDict, files, a)} :
            /\ call' = <<"dns_answer_to_json", a>>
            /\ objDict' = r[1]
            /\ files' = r[2]
            /\ outcome' = r[3]
            /\ stderr' = r[4]
            /\ dumped' = r[5]
            /\ UNCHANGED <<resolver, encVars>>

\* A caller calls json_dns_query; the resolver answers or raises.
CallJsonDnsQuery ==
    \E qtype \in QTypes, resolvers \in ResolverLists,
       resolved \in AnswerIds \cup ResolveExceptions,
       native \in BOOLEAN, to_file \in Paths \cup {NoPath}, now \in Clock :
        \E q \in {Query("example.com", qtype, resolvers, resolved,
                         Args(resolved, FALSE, native, FALSE, to_file, now))} :
        \E r \in {JsonDnsQuery(objDict, files, q)} :
            /\ call' = <<"json_dns_query", q>>
            /\ resolver' = NewResolver(resolvers)
            /\ objDict' = r[1]
            /\ files' = r[2]
            /\ outcome' = r[3]
            /\ stderr' = r[4]
            /\ dumped' = r[5]
            /\ UNCHANGED encVars

\* The calls of dns_answer_to_json.
Next == CallDnsAnswerToJson

Spec == Init /\ [][Next]_vars

\* The calls of json_dns_query.
NextQuery == CallJsonDnsQuery

SpecQuery == Init /\ [][NextQuery]_vars

----------------------------------------------------------------------------
(* The encoder's methods applied to the values of a bounded universe *)

\* The longest list, tuple or set, and the most resource records in an RRset.
MaxLen == 2
MaxItems == 2

TXTRecord ==
    ("rdclass" :> RdataClass(1)) @@ ("rdtype" :> RdataType(16))
        @@ ("rdcomment" :> PyNone)
        @@ ("strings" :> PyTuple(<<PyBytes(<<195, 169>>), PyBytes(<<65>>)>>))
BadTXTRecord ==
    ("rdclass" :> RdataClass(1)) @@ ("rdtype" :> RdataType(16))
        @@ ("rdcomment" :> PyNone)
        @@ ("strings" :> PyTuple(<<PyBytes(<<233>>)>>))
LOCRecord ==
    ("rdclass" :> RdataClass(1)) @@ ("rdtype" :> RdataType(29))
        @@ ("rdcomment" :> PyNone)
        @@ ("latitude" :> PyTuple(<<PyInt(51), PyInt(30)>>)) @@ ("size" :> PyFloat(1))
SaltRecord ==
    ("rdclass" :> RdataClass(1)) @@ ("rdtype" :> RdataType(50))
        @@ ("rdcomment" :> PyNone) @@ ("salt" :> PyBytes(<<195, 169>>))
\* Slot names are those of dnspython's Rdata classes; none of them is 'ttl'.
Records == {MXRecord, TXTRecord, BadTXTRecord, LOCRecord, SaltRecord}

SeqsUpTo(S, n) == UNION {[1..m -> S] : m \in 0..n}

RRsets == {RRset(ttl, items) : ttl \in {60, 300}, items \in SeqsUpTo(Records, MaxItems)}

Leaves ==
    {PyInt(1), PyBool(TRUE), PyStr(<<97>>), PyNone, PyFloat(1), PyBytes(<<65>>),
     PyBytes(<<195, 169>>), PyBytes(<<233>>), Name(<<109, 120>>), RdataType(15),
     Opaque}

Elements == Leaves \cup {RRset(60, <<LOCRecord>>), RRset(60, <<MXRecord>>)}

Containers ==
    {<<k, s>> : k \in {"list", "tuple", "set"}, s \in SeqsUpTo(Elements, MaxLen)}

Dicts ==
    {PyDict(f) : f \in UNION {[K -> Elements] : K \in SUBSET {"rdcomment", "id"}}}

Nested ==
    {PyList(<<PyTuple(<<e>>), e>>) : e \in Leaves}
        \cup {PyDict("id" :> PySet(<<e>>)) : e \in Leaves}
        \cup {ChainingResult(("answer" :> r) @@ ("minimum_ttl" :> PyInt(60))) :
                r \in {RRset(60, <<MXRecord>>), PyNone}}

EncInputs == Leaves \cup RRsets \cup Containers \cup Dicts \cup Nested

Encoders ==
    {DNSEncoderInit(TRUE, rdc, enc) : rdc \in BOOLEAN, enc \in {"utf-8", "latin-1"}}

InitEnc ==
    /\ InitApi
    /\ encSelf \in Encoders
    /\ encIn \in EncInputs
    /\ encOp = "none"
    /\ encOut = Pending

ApplyRobustEncode ==
    /\ encOp = "none"
    /\ encOp' = "_robust_encode"
    /\ encOut' = RobustEncode(encSelf, encIn)
    /\ UNCHANGED <<encSelf, encIn, apiVars>>

ApplyEncodeRRset ==
    /\ encOp = "none"
    /\ encOp' = "_encode_rrset"
    /\ encOut' = EncodeRRset(encSelf, encIn)
    /\ UNCHANGED <<encSelf, encIn, apiVars>>

ApplyDefault ==
    /\ encOp = "none"
    /\ encOp' = "default"
    /\ encOut' = Default(encSelf, encIn)
    /\ UNCHANGED <<encSelf, encIn, apiVars>>

NextEnc == ApplyRobustEncode \/ ApplyEncodeRRset \/ ApplyDefault

SpecEnc == InitEnc /\ [][NextEnc]_vars

----------------------------------------------------------------------------
(* Properties of dns_answer_to_json, under Spec *)

IsAnswerCall == call[1] = "dns_answer_to_json"
Returned == outcome # Pending /\ ~IsRaise(outcome)

\* The arguments of the last call of dns_answer_to_json.
ArgAnswer == call[2][1]
ArgIncludeResponseBlob == call[2][2]
ArgAsNativeObject == call[2][3]
ArgToFile == call[2][5]
ArgNow == call[2][6]

\* The Python object a return value stands for: itself, or the parse of the
\* JSON string.
AsObject(out) == IF out[1] = "jsonstr" THEN JsonLoads(out) ELSE out

StampKeys == {"isoformat_expiration", "request_timestamp"}

\* C1: when to_file is set and writing the file fails with an OSError, the
\* function reports the error on stderr and still returns its result (the
\* JSON string, or its parse when as_native_object is True).
C1_WriteFailureStillReturns ==
    (/\ IsAnswerCall
     /\ IsAnswer(ArgAnswer)
     /\ ArgToFile # NoPath
     /\ ~Writable(ArgToFile)
     /\ dumped # NoString)
        => /\ Len(stderr) > 0
           /\ stderr[1][1] = "ERROR: While writing file"
           /\ outcome = IF ArgAsNativeObject THEN JsonLoads(dumped) ELSE dumped

\* C2: the top-level keys of the output of a call on an Answer are the
\* attribute names of the Answer plus isoformat_expiration and
\* request_timestamp, without 'response' unless include_response_blob is
\* True; on a repeated call too.
C2_OutputKeys ==
    (IsAnswerCall /\ Returned)
        => /\ AsObject(outcome)[1] = "dict"
           /\ DOMAIN AsObject(outcome)[2] =
                ((DOMAIN InitialDict(ArgAnswer)) \cup StampKeys)
                    \ (IF ArgIncludeResponseBlob THEN {} ELSE {"response"})
           /\ DOMAIN objDict[ArgAnswer] = (DOMAIN InitialDict(ArgAnswer)) \cup StampKeys

\* A call with include_response_blob=True that returned, on an Answer an
\* earlier call had already written to a file.
C2_Witness ==
    /\ IsAnswerCall /\ Returned
    /\ ArgIncludeResponseBlob
    /\ ArgToFile = NoPath
    /\ files["out.json"] # NoFile
    /\ "response" \in DOMAIN AsObject(outcome)[2]

\* C3: a call whose argument is not an Answer raises TypeError and does
\* nothing else: no attribute is set on the argument, nothing is serialized,
\* no file is written.
C3_NonAnswerRejected ==
    [][(IsAnswerCall' /\ ~IsAnswer(ArgAnswer'))
        => /\ outcome' = Raise("TypeError")
           /\ objDict' = objDict
           /\ files' = files
           /\ dumped' = NoString
           /\ stderr' = <<>>]_vars

\* A call with a Message and to_file set raised TypeError.
C3_Witness ==
    /\ IsAnswerCall
    /\ ArgAnswer = "message"
    /\ ArgToFile = "out.json"
    /\ outcome = Raise("TypeError")
    /\ DOMAIN objDict["message"] = DOMAIN InitialDict("message")

\* C4: the outputs of one successful call are one serialization: the return
\* value is the JSON string, or its parse when as_native_object is True, and
\* the file named by to_file holds that same string, which is valid JSON of
\* this call (its request_timestamp is this call's).
C4_OneSerialization ==
    (IsAnswerCall /\ Returned)
        => /\ dumped[1] = "jsonstr"
           /\ ~IsRaise(JsonLoads(dumped))
           /\ outcome = IF ArgAsNativeObject THEN JsonLoads(dumped) ELSE dumped
           /\ ArgToFile # NoPath
                => /\ files[ArgToFile] = dumped
                   /\ AsObject(outcome) = JsonLoads(files[ArgToFile])
                   /\ JsonLoads(files[ArgToFile])[2]["request_timestamp"]
                        = IsoFormat(ArgNow)

\* A call with as_native_object=True that wrote the file and returned a dict.
C4_Witness ==
    /\ IsAnswerCall /\ Returned
    /\ ArgAsNativeObject
    /\ ArgToFile = "out.json"
    /\ outcome[1] = "dict"
    /\ files["out.json"][1] = "jsonstr"

----------------------------------------------------------------------------
(* Properties of json_dns_query, under SpecQuery *)

IsQueryCall == call[1] = "json_dns_query"

\* The arguments of the last call of json_dns_query, what the resolver did
\* during it, and the resolver it built.
QueryResolvers == call[2][3]
QueryResolved == call[2][4]
QueryKwargs == call[2][5]
ResolverConfigured == resolver[1]
ResolverNameservers == resolver[2]

\* C5: a resolver failure of kind Timeout, NoAnswer, NoMetaqueries,
\* NoNameservers or NXDOMAIN is not propagated: a failure line goes to stderr
\* and None is returned; when the resolver returns an Answer the result is
\* what dns_answer_to_json gives for it with the caller's keyword arguments;
\* the system configuration is used exactly when resolvers is None, the
\* given nameservers otherwise.
C5_QueryContract ==
    IsQueryCall
        => /\ QueryResolved \in
                {"Timeout", "NoAnswer", "NoMetaqueries", "NoNameservers", "NXDOMAIN"}
                => /\ outcome = PyNone
                   /\ Len(stderr) = 1
                   /\ stderr[1][1] = "Failed query"
           /\ QueryResolved \in AnswerIds
                => outcome = DnsAnswerToJson(objDict, files, QueryKwargs)[3]
           /\ ResolverConfigured = (QueryResolvers = NoResolvers)
           /\ QueryResolvers # NoResolvers
                => ResolverNameservers = QueryResolvers
           /\ QueryResolvers = NoResolvers
                => ResolverNameservers = SystemNameservers

\* The resolver raised NXDOMAIN with the caller's nameservers in use, and
\* the query returned None.
C5_Witness ==
    /\ IsQueryCall
    /\ QueryResolved = "NXDOMAIN"
    /\ QueryResolvers # NoResolvers
    /\ ResolverNameservers = QueryResolvers
    /\ outcome = PyNone
    /\ Len(stderr) = 1

----------------------------------------------------------------------------
(* Properties of the encoder, under SpecEnc *)

\* The encoder's _skipkeys and _encoding, and for an RRset handed to a method
\* its TTL, its resource records and the records made of them.
Skipkeys == encSelf[3]
Encoding == encSelf[4]
InTTL == encIn[2][1]
InItems == encIn[2][2]
OutRecords == encOut[2]
EncodedRRset == encOp = "_encode_rrset" /\ encIn[1] = "rrset" /\ ~IsRaise(encOut)

\* C6: _encode_rrset returns one record per resource record, in the order
\* of the RRset's items, each with 'ttl' equal to the RRset's TTL and one key
\* for every slot of the resource record that is not skipped.
C6_TTLHoisted ==
    EncodedRRset
        => /\ encOut[1] = "list"
           /\ Len(OutRecords) = Len(InItems)
           /\ \A i \in 1..Len(InItems) :
                /\ OutRecords[i][1] = "dict"
                /\ DOMAIN OutRecords[i][2] = {"ttl"} \cup ((DOMAIN InItems[i]) \ Skipkeys)
                /\ OutRecords[i][2]["ttl"] = PyInt(InTTL)
                /\ OutRecords[i][2]["rdtype"] = PyStr(RdataTypeText(InItems[i]["rdtype"][2]))

\* An RRset of two resource records of different types was encoded.
C6_Witness ==
    /\ EncodedRRset
    /\ Len(InItems) = 2
    /\ InItems[1] # InItems[2]
    /\ InTTL = 300
    /\ Len(OutRecords) = 2

\* A structure made only of str, int, bool, list and dict.
RECURSIVE OnlyPrimitives(_)
OnlyPrimitives(x) ==
    \/ x[1] \in {"str", "int", "bool", "rdtype", "rdclass"}
    \/ x[1] = "list" /\ \A i \in 1..Len(x[2]) : OnlyPrimitives(x[2][i])
    \/ x[1] = "dict" /\ \A k \in DOMAIN x[2] : OnlyPrimitives(x[2][k])

IsSequence(x) == x[1] \in {"set", "list", "tuple"}

\* The record of a resource record keeps every slot that is not skipped,
\* and every element of a slot that is a sequence.
RecordKeeps(skip, item, rec) ==
    /\ rec[1] = "dict"
    /\ \A slot \in (DOMAIN item) \ skip :
        /\ slot \in DOMAIN rec[2]
        /\ IsSequence(item[slot])
            => rec[2][slot][1] = "list" /\ Len(rec[2][slot][2]) = Len(item[slot][2])

\* out is what the claim says in becomes, nothing dropped.
RECURSIVE Converts(_, _, _)
Converts(skip, in, out) ==
    IF in[1] \in {"int", "str", "bool", "rdtype", "rdclass"} THEN out = in
    ELSE IF in[1] = "bytes" THEN out[1] = "str"
    ELSE IF IsSequence(in)
    THEN /\ out[1] = "list"
         /\ Len(out[2]) = Len(in[2])
         /\ \A i \in 1..Len(in[2]) : Converts(skip, in[2][i], out[2][i])
    ELSE IF in[1] = "dict"
    THEN /\ out[1] = "dict"
         /\ DOMAIN out[2] = (DOMAIN in[2]) \ skip
         /\ \A k \in (DOMAIN in[2]) \ skip : Converts(skip, in[2][k], out[2][k])
    ELSE IF in[1] = "rrset"
    THEN /\ out[1] = "list"
         /\ Len(out[2]) = Len(in[2][2])
         /\ \A i \in 1..Len(in[2][2]) : RecordKeeps(skip, in[2][2][i], out[2][i])
    ELSE IF HasToText(in) THEN out = PyStr(ToText(in, FALSE))
    ELSE FALSE

\* C7: _robust_encode returns a structure made only of str, int, bool, list
\* and dict, with no element dropped, or raises TypeError; a value of any
\* other type raises TypeError.
C7_RobustEncodeTotal ==
    encOp = "_robust_encode"
        => IF IsRaise(encOut) THEN encOut[2] = "TypeError"
           ELSE OnlyPrimitives(encOut) /\ Converts(Skipkeys, encIn, encOut)

\* The bytes elements of a sequence slot, decoded with the given encoding.
DecodedElements(value, encoding) ==
    ListOf([i \in 1..Len(BytesOnly(value[2])) |->
               BytesDecode(BytesOnly(value[2])[i], encoding)])

\* C8: every bytes value the encoder converts to text is decoded with the
\* encoding the DNSEncoder was constructed with: in _robust_encode, in a
\* bytes slot of a record, and in the bytes elements of a sequence slot.
C8_ConfiguredEncoding ==
    /\ (encOp = "_robust_encode" /\ encIn[1] = "bytes")
        => encOut = BytesDecode(encIn, Encoding)
    /\ EncodedRRset
        => \A i \in 1..Len(InItems) :
            \A slot \in (DOMAIN InItems[i]) \ Skipkeys :
                /\ InItems[i][slot][1] = "bytes"
                    => OutRecords[i][2][slot] = BytesDecode(InItems[i][slot], Encoding)
                /\ IsSequence(InItems[i][slot])
                    => \A j \in 1..Len(OutRecords[i][2][slot][2]) :
                        OutRecords[i][2][slot][2][j]
                          = DecodedElements(InItems[i][slot], Encoding)[j]

====
